---- MODULE Spec2Model ----
(***************************************************************************)
(* A model of the radix tree of souleb/gotrie (src/trie.go).               *)
(*                                                                         *)
(* A node is the record [isLeaf, edges, edgesNil, data]: edges is the Go   *)
(* map[byte]*edge as a function from the bytes that have an edge to the    *)
(* edge [label, next]; edgesNil tells the nil map (a node built by the     *)
(* composite literal of InsertItem, line 60) from an allocated one.  Nodes *)
(* are owned by exactly one edge, so the pointer graph is a tree and is    *)
(* modelled by value.  A byte is a number of 1..MaxByte, a []byte a        *)
(* sequence of bytes, a nil []byte of data the value NilData.              *)
(*                                                                         *)
(* Labels are Go slices that may share an array: a split leaves the two    *)
(* halves of a label in one array, and the append of a merge may write in  *)
(* place behind the first label.  The labels that lie in one array are on  *)
(* consecutive edges of one path, so the bytes such an append overwrites   *)
(* belong to the second label of the merge itself or to no edge of the     *)
(* tree any more; labels are therefore modelled by value.                  *)
(*                                                                         *)
(* The order of a range over a Go map is not fixed: Keys and an unsorted   *)
(* Traverse are modelled by the set of all results the orders can give.    *)
(* A call that panics leaves the trie as it was (delete panics on its way  *)
(* down, before any write) and is recorded in last.                        *)
(***************************************************************************)
EXTENDS Integers, Sequences, FiniteSets, TLC

\* ---------------------------------------------------------------- bounds
\* bytes are 1..MaxByte, keys and prefixes have at most MaxKeyLen bytes, a run
\* makes at most MaxOps calls
MaxByte == 2
MaxKeyLen == 2
MaxOps == 5

Byte == 1..MaxByte

RECURSIVE SeqsUpTo(_)
SeqsUpTo(n) ==
  IF n = 0 THEN {<<>>}
  ELSE LET S == SeqsUpTo(n - 1)
       IN S \cup {Append(s, b) : s \in {t \in S : Len(t) = n - 1}, b \in Byte}

\* the strings a caller passes: every byte string of at most MaxKeyLen bytes
Strings == SeqsUpTo(MaxKeyLen)

\* the values of the example: const dir = "dir", file = "file"
dir == "dir"
file == "file"
Data == {dir, file}
NilData == "nil"

\* ---------------------------------------------------------------- state
\* root, sorted: the fields of the Trie.  last: the last call of the public
\* API with its arguments and what it returned.  ops: the calls made so far.
VARIABLES root, sorted, last, ops
vars == <<root, sorted, last, ops>>

\* ---------------------------------------------------------------- helpers
NoEdges == [b \in {} |-> {}]

\* s[i:] and s[:i] of Go
From(s, i) == SubSeq(s, i + 1, Len(s))
UpTo(s, i) == SubSeq(s, 1, i)

Without(m, k) == [b \in (DOMAIN m) \ {k} |-> m[b]]
With(m, k, e) == [b \in (DOMAIN m) \cup {k} |-> IF b = k THEN e ELSE m[b]]

\* NewTrie's root: &node{false, make(map[byte]*edge), nil}
NewRoot == [isLeaf |-> FALSE, edges |-> NoEdges, edgesNil |-> FALSE, data |-> NilData]

\* &node{isLeaf: true, data: data}: the edges map is left nil
NewLeaf(data) == [isLeaf |-> TRUE, edges |-> NoEdges, edgesNil |-> TRUE, data |-> data]

\* getFirstMismatch: the number of leading bytes on which the two agree
RECURSIVE getFirstMismatch(_, _)
getFirstMismatch(current, label) ==
  IF Len(current) = 0 \/ Len(label) = 0 THEN 0
  ELSE IF current[1] # label[1] THEN 0
  ELSE 1 + getFirstMismatch(From(current, 1), From(label, 1))

\* ---------------------------------------------------------------- InsertItem
\* SplitEdge whose new node takes the data of the node it is put above
SplitEdgeCopyData(currEdge, splitIdx) ==
  LET tail == From(currEdge.label, splitIdx)
      newNext == [isLeaf |-> FALSE,
                  edges |-> With(NoEdges, tail[1], [label |-> tail, next |-> currEdge.next]),
                  edgesNil |-> FALSE,
                  data |-> currEdge.next.data]
  IN [label |-> UpTo(currEdge.label, splitIdx), next |-> newNext]

\* SplitEdge that files the rest of the label under the label's first byte
SplitEdgeKeyedByHead(currEdge, splitIdx) ==
  LET tail == From(currEdge.label, splitIdx)
      newNext == [isLeaf |-> FALSE,
                  edges |-> With(NoEdges, currEdge.label[1], [label |-> tail, next |-> currEdge.next]),
                  edgesNil |-> FALSE,
                  data |-> NilData]
  IN [label |-> UpTo(currEdge.label, splitIdx), next |-> newNext]

\* lines 77-84: the edge cut at splitIdx, a fresh non-leaf node in between
SplitEdge(currEdge, splitIdx) ==
  LET tail == From(currEdge.label, splitIdx)
      newNext == [isLeaf |-> FALSE,
                  edges |-> With(NoEdges, tail[1], [label |-> tail, next |-> currEdge.next]),
                  edgesNil |-> FALSE,
                  data |-> NilData]
  IN [label |-> UpTo(currEdge.label, splitIdx), next |-> newNext]

\* MarkLeaf with line 89 left out: the leaf flag is set, the data is not
MarkLeafFlagOnly(e, bPref, data) ==
  IF Len(bPref) = Len(e.label)
  THEN [e EXCEPT !.next.isLeaf = TRUE]
  ELSE e

\* MarkLeaf that leaves a node that is a leaf already as it is
MarkLeafIfAbsent(e, bPref, data) ==
  IF Len(bPref) = Len(e.label) /\ ~e.next.isLeaf
  THEN [e EXCEPT !.next.isLeaf = TRUE, !.next.data = data]
  ELSE e

\* lines 87-90: the key ends on the edge's target
MarkLeaf(e, bPref, data) ==
  IF Len(bPref) = Len(e.label)
  THEN [e EXCEPT !.next.isLeaf = TRUE, !.next.data = data]
  ELSE e

\* KeyUsedUp that makes the node the walk stands on a leaf with the data
KeyUsedUpMarks(cur, data) == [cur EXCEPT !.isLeaf = TRUE, !.data = data]

\* lines 51, 94-95: the loop ends with no byte left and nothing more is written
KeyUsedUp(cur, data) == cur

\* one pass of the loop of InsertItem at cur with bPref left, then the rest
RECURSIVE insert(_, _, _)
insert(cur, bPref, data) ==
  IF Len(bPref) = 0 THEN KeyUsedUp(cur, data)
  ELSE
    LET k == bPref[1]
        cur1 == [cur EXCEPT !.edgesNil = FALSE]
    IN IF k \notin DOMAIN cur.edges
       THEN [cur1 EXCEPT !.edges = With(cur.edges, k, [label |-> bPref, next |-> NewLeaf(data)])]
       ELSE
         LET currEdge == cur.edges[k]
             labelLen == Len(currEdge.label)
             curStr == IF Len(bPref) > labelLen THEN UpTo(bPref, labelLen) ELSE bPref
             splitIdx == getFirstMismatch(curStr, currEdge.label)
             e1 == IF splitIdx # labelLen THEN SplitEdge(currEdge, splitIdx) ELSE currEdge
             e2 == MarkLeaf(e1, bPref, data)
             e3 == [e2 EXCEPT !.next = insert(e2.next, From(bPref, splitIdx), data)]
         IN [cur1 EXCEPT !.edges = With(cur.edges, k, e3)]

\* ---------------------------------------------------------------- lookup
\* getNode: the node a key ends on, found = FALSE for Go's nil
Found(n) == [found |-> TRUE, node |-> n]
NotFound == [found |-> FALSE, node |-> NewRoot]

RECURSIVE getNodeFrom(_, _)
getNodeFrom(cur, bPref) ==
  IF Len(bPref) = 0 THEN Found(cur)
  ELSE IF bPref[1] \notin DOMAIN cur.edges THEN NotFound
  ELSE LET edge == cur.edges[bPref[1]]
           splitIdx == getFirstMismatch(bPref, edge.label)
       IN IF splitIdx # Len(edge.label) THEN NotFound
          ELSE getNodeFrom(edge.next, From(bPref, splitIdx))

getNode(t, prefix) == getNodeFrom(t, prefix)

HasItem(t, key) ==
  LET node == getNode(t, key) IN node.found /\ node.node.isLeaf

\* ---------------------------------------------------------------- DeleteItem
\* the three ways a call of delete ends: the node it returns, nil, or the
\* run-time panic of key[len(currEdge.label):] on a key shorter than the label
Kept(n) == [kind |-> "node", node |-> n]
Removed == [kind |-> "nil", node |-> NewRoot]
Panic == [kind |-> "panic", node |-> NewRoot]

OnlyEdge(n) == n.edges[CHOOSE b \in DOMAIN n.edges : TRUE]

\* Unwind whose merge keeps the label of the child's edge alone
UnwindShortLabel(node, isRoot, k, currEdge, deleted) ==
  IF deleted.kind = "nil"
  THEN LET rest == Without(node.edges, k)
       IN IF DOMAIN rest = {} /\ ~node.isLeaf /\ ~isRoot
          THEN Removed
          ELSE Kept([node EXCEPT !.edges = rest])
  ELSE IF Cardinality(DOMAIN deleted.node.edges) = 1 /\ ~deleted.node.isLeaf
  THEN LET v == OnlyEdge(deleted.node)
       IN Kept([node EXCEPT !.edges =
                  With(node.edges, k, [label |-> v.label, next |-> v.next])])
  ELSE Kept([node EXCEPT !.edges = With(node.edges, k, [currEdge EXCEPT !.next = deleted.node])])

\* lines 157-172: what delete does at node once the call on the child returned
Unwind(node, isRoot, k, currEdge, deleted) ==
  IF deleted.kind = "nil"
  THEN LET rest == Without(node.edges, k)
       IN IF DOMAIN rest = {} /\ ~node.isLeaf /\ ~isRoot
          THEN Removed
          ELSE Kept([node EXCEPT !.edges = rest])
  ELSE IF Cardinality(DOMAIN deleted.node.edges) = 1 /\ ~deleted.node.isLeaf
  THEN LET v == OnlyEdge(deleted.node)
       IN Kept([node EXCEPT !.edges =
                  With(node.edges, k, [label |-> currEdge.label \o v.label, next |-> v.next])])
  ELSE Kept([node EXCEPT !.edges = With(node.edges, k, [currEdge EXCEPT !.next = deleted.node])])

\* lines 143-149: the key is used up at node
Terminus(node, isRoot) ==
  IF node.edgesNil /\ ~isRoot THEN Removed
  ELSE Kept([node EXCEPT !.isLeaf = FALSE])

RECURSIVE delete(_, _, _)
delete(node, key, isRoot) ==
  IF Len(key) = 0 THEN Terminus(node, isRoot)
  ELSE IF key[1] \notin DOMAIN node.edges THEN Kept(node)
  ELSE LET currEdge == node.edges[key[1]]
       IN IF Len(currEdge.label) > Len(key) THEN Panic
          ELSE LET deleted == delete(currEdge.next, From(key, Len(currEdge.label)), FALSE)
               IN IF deleted.kind = "panic" THEN Panic
                  ELSE Unwind(node, isRoot, key[1], currEdge, deleted)

\* ---------------------------------------------------------------- Set
\* the node getNode finds, with its data replaced (Set writes through the pointer)
\* WriteData on a copy of the node: the node of the tree keeps its data
WriteDataToCopy(node, data) == node

\* line 182: .data = data on the node getNode returned
WriteData(node, data) == [node EXCEPT !.data = data]

RECURSIVE setData(_, _, _)
setData(cur, bPref, data) ==
  IF Len(bPref) = 0 THEN WriteData(cur, data)
  ELSE LET edge == cur.edges[bPref[1]]
       IN [cur EXCEPT !.edges[bPref[1]].next =
             setData(edge.next, From(bPref, Len(edge.label)), data)]

\* GetItem: t.getNode(key).data, a nil-pointer panic when getNode returns nil
GetItem(t, key) ==
  LET node == getNode(t, key)
  IN IF node.found THEN [panic |-> FALSE, data |-> node.node.data]
     ELSE [panic |-> TRUE, data |-> NilData]

\* ---------------------------------------------------------------- Keys
\* startsWith: the node below the prefix and the path of that node; the prefix
\* may end inside a label, and the rest of the label is then added to it
\* InsideLabel that returns the prefix as it was given
InsideLabelBare(edge, splitIdx, bPref, prefix) ==
  IF splitIdx = Len(bPref)
  THEN [found |-> TRUE, node |-> edge.next, pref |-> prefix]
  ELSE [found |-> FALSE, node |-> NewRoot, pref |-> <<>>]

\* lines 212-215: the label is not used up
InsideLabel(edge, splitIdx, bPref, prefix) ==
  IF splitIdx = Len(bPref)
  THEN [found |-> TRUE, node |-> edge.next, pref |-> prefix \o From(edge.label, splitIdx)]
  ELSE [found |-> FALSE, node |-> NewRoot, pref |-> <<>>]

RECURSIVE startsWithFrom(_, _, _)
startsWithFrom(cur, bPref, prefix) ==
  IF Len(bPref) = 0 THEN [found |-> TRUE, node |-> cur, pref |-> prefix]
  ELSE IF bPref[1] \notin DOMAIN cur.edges THEN [found |-> FALSE, node |-> NewRoot, pref |-> <<>>]
  ELSE LET edge == cur.edges[bPref[1]]
           splitIdx == getFirstMismatch(bPref, edge.label)
       IN IF splitIdx # Len(edge.label)
          THEN InsideLabel(edge, splitIdx, bPref, prefix)
          ELSE startsWithFrom(edge.next, From(bPref, splitIdx), prefix)

startsWith(t, prefix) == startsWithFrom(t, prefix, prefix)

\* the orders in which a range over a Go map may yield the bytes of S: any
RECURSIVE Orders(_)
Orders(S) ==
  IF S = {} THEN {<<>>}
  ELSE UNION {{<<b>> \o s : s \in Orders(S \ {b})} : b \in S}

\* sort.Slice(keys, keys[i] < keys[j]): the bytes of S in ascending order
RECURSIVE Ascending(_)
Ascending(S) ==
  IF S = {} THEN <<>>
  ELSE LET b == CHOOSE x \in S : \A y \in S : x <= y
       IN <<b>> \o Ascending(S \ {b})

\* OwnFirst with the node's own key appended after the loop over the edges
OwnLast(own, below) == below \o own

\* lines 191-198: the node's own key, if it is a leaf, then the keys below it
OwnFirst(own, below) == own \o below

\* Keys: every slice a call may return (the map order is not fixed).  The
\* recursion of Keys starts again from the root with the child's path.
RECURSIVE KeysResults(_, _), KeysOfEdges(_, _, _, _)
KeysOfEdges(t, node, pref, order) ==
  IF Len(order) = 0 THEN {<<>>}
  ELSE {a \o b : a \in KeysResults(t, pref \o node.edges[order[1]].label),
                 b \in KeysOfEdges(t, node, pref, From(order, 1))}

KeysResults(t, prefix) ==
  LET sw == startsWith(t, prefix)
  IN IF ~sw.found THEN {<<>>}
     ELSE LET own == IF sw.node.isLeaf THEN <<sw.pref>> ELSE <<>>
          IN UNION {{OwnFirst(own, r) : r \in KeysOfEdges(t, sw.node, sw.pref, order)} :
                      order \in Orders(DOMAIN sw.node.edges)}

\* ---------------------------------------------------------------- Traverse
\* keys without the sort
keysUnsorted(m, isSorted) == Orders(DOMAIN m)

\* keys: the bytes of the map, sorted when the flag is set
keys(m, isSorted) ==
  IF isSorted THEN {Ascending(DOMAIN m)} ELSE Orders(DOMAIN m)

\* A TFunc is modelled by the paths at which it returns false and those at
\* which it returns an error; elsewhere it returns (true, nil).
NoError == "nil"
CallbackError == "callback error"
AlwaysContinue == [stop |-> {}, fail |-> {}]
StopAt(p) == [stop |-> {p}, fail |-> {}]
FailAt(p) == [stop |-> {}, fail |-> {p}]
TFuncs == {AlwaysContinue} \cup {StopAt(p) : p \in Strings} \cup {FailAt(p) : p \in Strings}

\* AfterChild without the return of line 248: the loop goes on to the next
\* edges and the first error is returned at its end
AfterChildGoesOn(first, rests) ==
  {[calls |-> first.calls \o r.calls,
    err |-> IF first.err # NoError THEN first.err ELSE r.err] : r \in rests}

\* lines 246-249: first is what the call on one child gave, rests what the
\* loop over the edges after it can give; an error ends the loop
AfterChild(first, rests) ==
  IF first.err # NoError THEN {first}
  ELSE {[calls |-> first.calls \o r.calls, err |-> r.err] : r \in rests}

\* Visit without the return of lines 240-242
VisitIgnoresStop(call, fn, below) ==
  IF call.path \in fn.fail THEN {[calls |-> <<call>>, err |-> CallbackError]}
  ELSE {[calls |-> <<call>> \o r.calls, err |-> r.err] : r \in below}

\* lines 234-251: fn is called for the node; an error is returned, false ends
\* the call, otherwise the walks of the edges (below) follow
Visit(call, fn, below) ==
  IF call.path \in fn.fail THEN {[calls |-> <<call>>, err |-> CallbackError]}
  ELSE IF call.path \in fn.stop THEN {[calls |-> <<call>>, err |-> NoError]}
  ELSE {[calls |-> <<call>> \o r.calls, err |-> r.err] : r \in below}

\* traverse: every (calls of fn in order, error returned) a call may produce
RECURSIVE traverse(_, _, _, _, _), traverseEdges(_, _, _, _, _, _)
traverseEdges(node, step, path, fn, isSorted, order) ==
  IF Len(order) = 0 THEN {[calls |-> <<>>, err |-> NoError]}
  ELSE LET e == node.edges[order[1]]
       IN UNION {AfterChild(first, traverseEdges(node, step, path, fn, isSorted, From(order, 1))) :
                   first \in traverse(e.next, step + 1, path \o e.label, fn, isSorted)}

traverse(node, step, path, fn, isSorted) ==
  LET call == [step |-> step, path |-> path, data |-> node.data, isLeaf |-> node.isLeaf]
  IN Visit(call, fn, UNION {traverseEdges(node, step, path, fn, isSorted, order) :
                              order \in keys(node.edges, isSorted)})

\* ---------------------------------------------------------------- the example
\* printFile: the path is printed for a leaf whose data is "file"
printFile(call) ==
  IF call.data = file /\ call.isLeaf THEN <<call.path>> ELSE <<>>

\* PrintFiles: what the calls of printFile wrote, in order
RECURSIVE PrintFiles(_)
PrintFiles(calls) ==
  IF Len(calls) = 0 THEN <<>>
  ELSE printFile(calls[1]) \o PrintFiles(From(calls, 1))

\* ---------------------------------------------------------------- actions
Init ==
  /\ root = NewRoot
  /\ sorted = FALSE
  /\ ops = 0
  /\ last = [op |-> "NewTrie"]

Sorted(b) ==
  /\ ops < MaxOps
  /\ sorted' = b
  /\ ops' = ops + 1
  /\ last' = [op |-> "Sorted"]
  /\ UNCHANGED root

InsertItem(key, data) ==
  /\ ops < MaxOps
  /\ root' = insert(root, key, data)
  /\ ops' = ops + 1
  /\ last' = [op |-> "InsertItem", key |-> key, data |-> data]
  /\ UNCHANGED sorted

DeleteItem(key) ==
  /\ ops < MaxOps
  /\ LET r == delete(root, key, TRUE)
     IN \* t.root = ...: the call on the root returns the root or panics
        /\ root' = IF r.kind = "node" THEN r.node ELSE root
        /\ last' = [op |-> "DeleteItem", key |-> key, panic |-> (r.kind = "panic")]
  /\ ops' = ops + 1
  /\ UNCHANGED sorted

Set(key, data) ==
  /\ ops < MaxOps
  /\ LET node == getNode(root, key)
     IN /\ root' = IF node.found THEN setData(root, key, data) ELSE root
        /\ last' = [op |-> "Set", key |-> key, data |-> data, panic |-> ~node.found]
  /\ ops' = ops + 1
  /\ UNCHANGED sorted

HasItemCall(key) ==
  /\ ops < MaxOps
  /\ ops' = ops + 1
  /\ last' = [op |-> "HasItem", key |-> key, res |-> HasItem(root, key)]
  /\ UNCHANGED <<root, sorted>>

GetItemCall(key) ==
  /\ ops < MaxOps
  /\ ops' = ops + 1
  /\ last' = [op |-> "GetItem", key |-> key, res |-> GetItem(root, key)]
  /\ UNCHANGED <<root, sorted>>

Keys(prefix) ==
  /\ ops < MaxOps
  /\ ops' = ops + 1
  /\ \E res \in KeysResults(root, prefix) :
       last' = [op |-> "Keys", key |-> prefix, res |-> res]
  /\ UNCHANGED <<root, sorted>>

Traverse(fn) ==
  /\ ops < MaxOps
  /\ ops' = ops + 1
  /\ \E r \in traverse(root, 0, <<>>, fn, sorted) :
       last' = [op |-> "Traverse", fn |-> fn, calls |-> r.calls, err |-> r.err]
  /\ UNCHANGED <<root, sorted>>

Next ==
  \/ \E b \in BOOLEAN : Sorted(b)
  \/ \E key \in Strings, data \in Data : InsertItem(key, data)
  \/ \E key \in Strings : DeleteItem(key)
  \/ \E key \in Strings, data \in Data : Set(key, data)
  \/ \E key \in Strings : HasItemCall(key)
  \/ \E key \in Strings : GetItemCall(key)
  \/ \E prefix \in Strings : Keys(prefix)
  \/ \E fn \in TFuncs : Traverse(fn)

Spec == Init /\ [][Next]_vars

\* a trie that is only ever filled: no DeleteItem, no Set
NextFill ==
  \/ \E b \in BOOLEAN : Sorted(b)
  \/ \E key \in Strings, data \in Data : InsertItem(key, data)
  \/ \E fn \in TFuncs : Traverse(fn)

SpecFill == Init /\ [][NextFill]_vars

\* a trie that Set is never called on
NextNoSet ==
  \/ \E b \in BOOLEAN : Sorted(b)
  \/ \E key \in Strings, data \in Data : InsertItem(key, data)
  \/ \E key \in Strings : DeleteItem(key)
  \/ \E fn \in TFuncs : Traverse(fn)

SpecNoSet == Init /\ [][NextNoSet]_vars

\* keys and prefixes of one byte more, for Keys on a trie of "file" entries
LongStrings == SeqsUpTo(MaxKeyLen + 1)

NextKeys ==
  \/ \E key \in LongStrings : InsertItem(key, file)
  \/ \E prefix \in LongStrings : Keys(prefix)

SpecKeys == Init /\ [][NextKeys]_vars

\* ---------------------------------------------------------------- vocabulary of the properties
IsPrefix(p, k) == Len(p) <= Len(k) /\ UpTo(k, Len(p)) = p

\* strict lexicographic order of byte strings (a proper prefix comes first)
RECURSIVE LexLess(_, _)
LexLess(a, b) ==
  IF Len(b) = 0 THEN FALSE
  ELSE IF Len(a) = 0 THEN TRUE
  ELSE IF a[1] # b[1] THEN a[1] < b[1]
  ELSE LexLess(From(a, 1), From(b, 1))

\* the keys for which HasItem is true
Stored(t) == {k \in Strings : HasItem(t, k)}

\* the paths of all nodes of the tree, by the edges' labels
RECURSIVE NodePaths(_, _)
NodePaths(node, path) ==
  {path} \cup UNION {NodePaths(node.edges[b].next, path \o node.edges[b].label) : b \in DOMAIN node.edges}

Elems(s) == {s[i] : i \in 1..Len(s)}
NoRepeat(s) == \A i, j \in 1..Len(s) : i # j => s[i] # s[j]
Increasing(s) == \A i, j \in 1..Len(s) : i < j => LexLess(s[i], s[j])

\* what a sorted Traverse with an always-continuing callback reports
SortedWalk(t) == CHOOSE r \in traverse(t, 0, <<>>, AlwaysContinue, TRUE) : TRUE
Shape(calls) == [i \in 1..Len(calls) |-> <<calls[i].step, calls[i].path, calls[i].isLeaf>>]

\* ---------------------------------------------------------------- C1
\* C1: right after InsertItem(k, d) with a non-empty k, HasItem(k) is true and
\* GetItem(k) returns d, whatever trie the call started from.
C1_InsertThenHasAndGet ==
  (last.op = "InsertItem" /\ last.key # <<>>)
    => /\ HasItem(root, last.key)
       /\ GetItem(root, last.key) = [panic |-> FALSE, data |-> last.data]

\* the second call of a run inserted <<1, 2>> next to <<1, 1>>: the edge was split
C1_Witness ==
  /\ last.op = "InsertItem" /\ last.key = <<1, 2>> /\ ops = 2
  /\ HasItem(root, <<1, 1>>)
  /\ getNode(root, <<1>>).found /\ ~HasItem(root, <<1>>)

\* ---------------------------------------------------------------- C2
\* C2: after DeleteItem(k), HasItem(k) is false and HasItem(k2) is what it was
\* before the call for every other key k2.
C2_DeleteOnlyThatKey ==
  [][last'.op = "DeleteItem"
       => /\ ~HasItem(root', last'.key)
          /\ \A k2 \in Strings \ {last'.key} : HasItem(root', k2) = HasItem(root, k2)]_vars

\* ---------------------------------------------------------------- C3
\* C3: DeleteItem(k) of a key that is not stored completes without failure and
\* leaves the trie as it was.
C3_DeleteAbsentIsNoOp ==
  [][(last'.op = "DeleteItem" /\ ~HasItem(root, last'.key))
       => (~last'.panic /\ root' = root)]_vars

\* ---------------------------------------------------------------- C4
\* C4: GetItem(k) of a key with HasItem(k) false does not fault on a missing
\* node and returns no data.
C4_GetItemAbsentNotFound ==
  (last.op = "GetItem" /\ ~HasItem(root, last.key))
    => (~last.res.panic /\ last.res.data = NilData)

\* ---------------------------------------------------------------- C5
\* C5: Set(k, d) of a key with HasItem(k) false does not fault and leaves the
\* trie, the data of every node included, as it was.
C5_SetAbsentIsNoOp ==
  [][(last'.op = "Set" /\ ~HasItem(root, last'.key))
       => (~last'.panic /\ root' = root)]_vars

\* ---------------------------------------------------------------- C6
\* C6: Keys(p) holds exactly the stored keys that start with p, each once, and
\* is empty when there is none.
C6_KeysExact ==
  last.op = "Keys"
    => /\ Elems(last.res) = {k \in Stored(root) : IsPrefix(last.key, k)}
       /\ NoRepeat(last.res)

\* Keys(<<1>>) where no node has the path <<1>>: the prefix ends inside the
\* label <<1, 1>> and the key of the label's target comes back
C6_Witness ==
  /\ last.op = "Keys" /\ last.key = <<1>>
  /\ ~getNode(root, <<1>>).found
  /\ Len(last.res) = 1 /\ last.res[1] = <<1, 1>>

\* ---------------------------------------------------------------- C7
\* C7: InsertItem(k, d2) of a stored key k replaces its data only: GetItem(k) is
\* d2, the stored keys are the same, k is once in Keys(""), and the sorted
\* Traverse reports the same (depth, path, isLeaf) sequence as before.
C7_ReinsertReplacesDataOnly ==
  [][(last'.op = "InsertItem" /\ HasItem(root, last'.key))
       => /\ GetItem(root', last'.key) = [panic |-> FALSE, data |-> last'.data]
          /\ Stored(root') = Stored(root)
          /\ \A r \in KeysResults(root', <<>>) :
               Cardinality({i \in 1..Len(r) : r[i] = last'.key}) = 1
          /\ Shape(SortedWalk(root').calls) = Shape(SortedWalk(root).calls)]_vars

\* a stored key was inserted again with other data
C7_Witness ==
  /\ last.op = "InsertItem" /\ last.key = <<1>> /\ last.data = file /\ ops = 3
  /\ Stored(root) = {<<1>>, <<1, 2>>}
  /\ GetItem(root, <<1, 2>>).data = dir

\* ---------------------------------------------------------------- C8
\* the keys in ascending order inserted into a fresh trie with the data t holds
RECURSIVE Refill(_, _, _)
Refill(acc, S, t) ==
  IF S = {} THEN acc
  ELSE LET k == CHOOSE x \in S : \A y \in S \ {x} : LexLess(x, y)
       IN Refill(insert(acc, k, GetItem(t, k).data), S \ {k}, t)

\* C8: with the sorted flag set, what Traverse reports for a trie filled by
\* InsertItem calls in any order is what it reports for the trie filled with the
\* same keys and data in ascending order of the keys.
C8_SortedWalkOfContents ==
  (last.op = "Traverse" /\ sorted /\ last.fn = AlwaysContinue)
    => last.calls = SortedWalk(Refill(NewRoot, Stored(root), root)).calls

\* the sorted walk of a trie filled with three keys, two of them with other
\* data than the third, in one of their six orders
C8_Witness ==
  /\ last.op = "Traverse" /\ sorted /\ last.fn = AlwaysContinue
  /\ Stored(root) = {<<1>>, <<1, 1>>, <<1, 2>>}
  /\ GetItem(root, <<1, 1>>).data = file /\ GetItem(root, <<1, 2>>).data = dir
  /\ Len(last.calls) = 4

\* ---------------------------------------------------------------- C9
\* C9: a sorted Traverse with an always-continuing callback is a pre-order walk:
\* the root first with depth 0 and the empty path, every node once with its own
\* data and leaf flag, a node after its parent with the parent's depth plus one
\* and the parent's path plus the edge label, siblings by ascending first byte,
\* so that the paths, and the stored keys among them, come strictly ascending.
C9_SortedPreOrder ==
  (last.op = "Traverse" /\ sorted /\ last.fn = AlwaysContinue)
    => LET c == last.calls
           n == Len(c)
       IN /\ n >= 1 /\ c[1].step = 0 /\ c[1].path = <<>>
          /\ {c[i].path : i \in 1..n} = NodePaths(root, <<>>)
          /\ \A i \in 1..n :
               LET node == getNode(root, c[i].path)
               IN node.found /\ c[i].data = node.node.data /\ c[i].isLeaf = node.node.isLeaf
          /\ \A i \in 2..n : \E j \in 1..(i - 1) :
               /\ c[i].step = c[j].step + 1
               /\ \E b \in DOMAIN getNode(root, c[j].path).node.edges :
                    c[i].path = c[j].path \o getNode(root, c[j].path).node.edges[b].label
          /\ \A i, j \in 1..n : i < j => LexLess(c[i].path, c[j].path)
          /\ last.err = NoError

\* a walk over a root with two children, the first of which has a child
C9_Witness ==
  /\ last.op = "Traverse" /\ sorted /\ last.fn = AlwaysContinue
  /\ Len(last.calls) = 4
  /\ last.calls[3].path = <<1, 2>> /\ last.calls[3].step = 2
  /\ last.calls[4].path = <<2>> /\ last.calls[4].step = 1

\* ---------------------------------------------------------------- C10
\* C10: a trie on which Sorted was never called (the flag is false) and that was
\* filled by InsertItem prints its "file" leaves in ascending order of the paths.
C10_PrintFilesAscending ==
  (last.op = "Traverse" /\ ~sorted /\ last.fn = AlwaysContinue)
    => Increasing(PrintFiles(last.calls))

\* ---------------------------------------------------------------- C11
\* C11: when the callback returns an error at a node, that call is the last
\* call of the walk and Traverse returns the error; a walk that meets a node at
\* which the callback fails (none is skipped) ends so; when no call returns an
\* error, Traverse returns none.
C11_ErrorStopsWalk ==
  last.op = "Traverse"
    => LET c == last.calls
           n == Len(c)
       IN /\ IF \E i \in 1..n : c[i].path \in last.fn.fail
             THEN /\ last.err = CallbackError
                  /\ c[n].path \in last.fn.fail
                  /\ \A i \in 1..(n - 1) : c[i].path \notin last.fn.fail
             ELSE last.err = NoError
          /\ (last.fn.stop = {} /\ last.fn.fail \cap NodePaths(root, <<>>) # {})
               => last.err = CallbackError

\* the callback failed at <<1>>, which has a child and a sibling: two calls
C11_Witness ==
  /\ last.op = "Traverse" /\ last.fn = FailAt(<<1>>)
  /\ {<<1>>, <<1, 1>>, <<2>>} \subseteq NodePaths(root, <<>>)
  /\ Len(last.calls) = 2 /\ last.calls[2].path = <<1>>
  /\ last.err = CallbackError

\* ---------------------------------------------------------------- C12
\* C12: with a callback that returns no error, the nodes called back are the
\* nodes that have no ancestor at which the callback returned false, each once,
\* and Traverse returns no error.
C12_FalseSkipsSubtree ==
  (last.op = "Traverse" /\ last.fn.fail = {})
    => LET c == last.calls
           all == NodePaths(root, <<>>)
       IN /\ {c[i].path : i \in 1..Len(c)} =
               {p \in all : \A q \in last.fn.stop \cap all : ~(IsPrefix(q, p) /\ q # p)}
          /\ \A i, j \in 1..Len(c) : i # j => c[i].path # c[j].path
          /\ last.err = NoError

\* the callback returned false at <<1>>, which has a child and a sibling
C12_Witness ==
  /\ last.op = "Traverse" /\ last.fn = StopAt(<<1>>)
  /\ NodePaths(root, <<>>) = {<<>>, <<1>>, <<1, 1>>, <<2>>}
  /\ {last.calls[i].path : i \in 1..Len(last.calls)} = {<<>>, <<1>>, <<2>>}

\* ---------------------------------------------------------------- C13
\* C13: Set(k, d) of a stored key k makes GetItem(k) return d; the stored keys
\* and the data of every other stored key stay as they were.
C13_SetWritesThatKeyOnly ==
  [][(last'.op = "Set" /\ HasItem(root, last'.key))
       => /\ ~last'.panic
          /\ GetItem(root', last'.key) = [panic |-> FALSE, data |-> last'.data]
          /\ Stored(root') = Stored(root)
          /\ \A k2 \in Stored(root) \ {last'.key} : GetItem(root', k2) = GetItem(root, k2)]_vars

\* Set wrote "file" to <<1>>, inserted with "dir" like <<1, 1>>
C13_Witness ==
  /\ last.op = "Set" /\ last.key = <<1>> /\ last.data = file /\ ops = 3
  /\ Stored(root) = {<<1>>, <<1, 1>>}
  /\ GetItem(root, <<1>>).data = file /\ GetItem(root, <<1, 1>>).data = dir

\* ---------------------------------------------------------------- C14
\* the nodes below a node
RECURSIVE Below(_)
Below(node) ==
  UNION {{node.edges[b].next} \cup Below(node.edges[b].next) : b \in DOMAIN node.edges}

\* C14: after InsertItem or DeleteItem no node other than the root is a
\* non-leaf with exactly one outgoing edge.
C14_NoUnmergedNode ==
  last.op \in {"InsertItem", "DeleteItem"}
    => \A n \in Below(root) : ~(~n.isLeaf /\ Cardinality(DOMAIN n.edges) = 1)

\* ---------------------------------------------------------------- C15
\* C15: after DeleteItem no node other than the root is a non-leaf without
\* outgoing edges.
C15_NoDeadNode ==
  last.op = "DeleteItem"
    => \A n \in Below(root) : ~(~n.isLeaf /\ DOMAIN n.edges = {})

\* ---------------------------------------------------------------- C16
\* C16: DeleteItem(k) of a stored key k completes, HasItem(k) is false after
\* it, and every other stored key is still stored with the data it had.
C16_DeleteStoredRemovesOnlyIt ==
  [][(last'.op = "DeleteItem" /\ HasItem(root, last'.key))
       => /\ ~last'.panic
          /\ Stored(root') = Stored(root) \ {last'.key}
          /\ \A k2 \in Stored(root) \ {last'.key} : GetItem(root', k2) = GetItem(root, k2)]_vars

\* <<1>> was deleted above <<1, 1>>: its node was merged away
C16_Witness ==
  /\ last.op = "DeleteItem" /\ last.key = <<1>> /\ ~last.panic /\ ops = 3
  /\ Stored(root) = {<<1, 1>>}
  /\ ~getNode(root, <<1>>).found

\* ---------------------------------------------------------------- C17
\* C17: every edge of the trie has a label of at least one byte and is kept in
\* its node's map under the first byte of the label.
C17_EdgesKeyedByFirstByte ==
  \A n \in {root} \cup Below(root) : \A b \in DOMAIN n.edges :
    Len(n.edges[b].label) >= 1 /\ n.edges[b].label[1] = b

\* DeleteItem(<<1, 2>>) merged the node split for <<1, 1>> and <<1, 2>>
C17_Witness ==
  /\ last.op = "DeleteItem" /\ last.key = <<1, 2>> /\ ops = 3
  /\ Stored(root) = {<<1, 1>>}
  /\ DOMAIN root.edges = {1} /\ root.edges[1].label = <<1, 1>>

\* ---------------------------------------------------------------- C18
\* C18: in what Keys(p) returns a key comes before every key that extends it,
\* and when p ends inside a label whose target is a leaf, that leaf's key is
\* the first element.
C18_KeyBeforeItsExtensions ==
  last.op = "Keys"
    => /\ \A i, j \in 1..Len(last.res) :
            (IsPrefix(last.res[i], last.res[j]) /\ last.res[i] # last.res[j]) => i < j
       /\ LET sw == startsWith(root, last.key)
          IN (sw.found /\ sw.pref # last.key /\ sw.node.isLeaf) => last.res[1] = sw.pref

\* Keys(<<1>>) with <<1, 1>> and <<1, 1, 2>> stored: <<1>> ends inside <<1, 1>>
C18_Witness ==
  /\ last.op = "Keys" /\ last.key = <<1>>
  /\ last.res = << <<1, 1>>, <<1, 1, 2>> >>
  /\ ~getNode(root, <<1>>).found

\* ---------------------------------------------------------------- C19
\* C19: Traverse calls back a node that is not a leaf with empty data.
C19_NonLeafHasNoData ==
  last.op = "Traverse"
    => \A i \in 1..Len(last.calls) : ~last.calls[i].isLeaf => last.calls[i].data = NilData

\* ---------------------------------------------------------------- C20
\* C20: the root is never a leaf and HasItem("") is never true; InsertItem("")
\* and DeleteItem("") complete and leave the trie, the root included, as it was.
C20_EmptyKeyNeverStored ==
  [][/\ ~HasItem(root', <<>>) /\ ~root'.isLeaf
     /\ (last'.op = "InsertItem" /\ last'.key = <<>>) => root' = root
     /\ (last'.op = "DeleteItem" /\ last'.key = <<>>) => (~last'.panic /\ root' = root)]_vars

\* DeleteItem("") on a root that is a non-leaf with one edge
C20_Witness ==
  /\ last.op = "DeleteItem" /\ last.key = <<>> /\ ~last.panic
  /\ DOMAIN root.edges = {1} /\ ~root.isLeaf
  /\ HasItem(root, <<1, 1>>)
====
